---------------------------- MODULE Spec2Model ----------------------------
(***************************************************************************)
(* Model of the Kamco report pipeline: PDFProcessor (text extraction,      *)
(* cleaning, truncation, metadata), AzureLLMClient (retry loop, deployment *)
(* fallback, response parsing) and KamcoPDFSummarizer (process_pdf,        *)
(* save_summary, run).                                                     *)
(*                                                                         *)
(* Python values are encoded as follows.                                   *)
(*   str            a sequence of one-character strings                    *)
(*   Optional[x]    None is <<>>, a present value v is <<v>>               *)
(*   dict           a record with a field "keys" holding the set of keys   *)
(*                  that are present, and one field per possible key       *)
(*   exception text a TLA+ string (the text of str(e))                     *)
(***************************************************************************)
EXTENDS Integers, Sequences, FiniteSets, TLC

(***************************************************************************)
(* Bounds of the model.                                                    *)
(***************************************************************************)
\* number of run()/summarize_text() invocations explored in one behaviour
MaxOps == 2
\* PDFProcessor.max_chars as passed to the constructor (4000 in Config; a
\* small budget keeps the page texts short while every branch of
\* limit_text_length stays reachable)
max_chars == 6

(***************************************************************************)
(* Program constants (src/config.py).                                      *)
(***************************************************************************)
MAX_RETRIES == 3
RETRY_DELAY == 1

None == <<>>
Some(v) == <<v>>
IsNone(o) == o = <<>>
Val(o) == o[1]

(***************************************************************************)
(* Characters.  The character classes are those of Python's re module:     *)
(* \s, \d, \w, and the allow-set of clean_text.                            *)
(***************************************************************************)
WhitespaceChars == {" ", "\t", "\n"}
DigitChars == {"0", "1", "2", "3", "4", "5", "6", "7", "8", "9"}
LowerLetters == {"a", "b", "e", "g", "p", "s"}
UpperLetters == {"A", "P"}
PunctChars == {"-", ".", ",", ";", ":", "!", "?", "(", ")", "%", "$"}

IsSpace(c) == c \in WhitespaceChars
IsDigit(c) == c \in DigitChars
IsWord(c) == c \in DigitChars \cup LowerLetters \cup UpperLetters \cup {"_"}
IsAllowed(c) == IsWord(c) \/ IsSpace(c) \/ c \in PunctChars

Lower(c) ==
    IF c = "P" THEN "p" ELSE IF c = "A" THEN "a" ELSE c

\* F applied to the value of v: the argument is evaluated once, before the
\* call, as Python evaluates it
Call(F(_), v) == CHOOSE r \in { F(x) : x \in {v} } : TRUE

Max(S) == CHOOSE m \in S : \A n \in S : n <= m
Min(S) == CHOOSE m \in S : \A n \in S : m <= n

\* text[i:] with a 0-based Python index, as a sequence
From(s, i) == SubSeq(s, i + 1, Len(s))
\* text[:i]
Upto(s, i) == SubSeq(s, 1, i)

\* str.rfind(ch): the 0-based index of the last occurrence, or -1
rfind(s, ch) ==
    LET I == {i \in 1..Len(s) : s[i] = ch}
    IN  IF I = {} THEN -1 ELSE Max(I) - 1

\* number of leading characters of s that satisfy the class test
RECURSIVE SpanSpace(_)
SpanSpace(s) ==
    IF s # <<>> /\ IsSpace(Head(s)) THEN 1 + Call(SpanSpace, Tail(s)) ELSE 0

RECURSIVE SpanDigit(_)
SpanDigit(s) ==
    IF s # <<>> /\ IsDigit(Head(s)) THEN 1 + Call(SpanDigit, Tail(s)) ELSE 0

\* str.strip(): drop leading and trailing whitespace
strip(s) ==
    LET I == {i \in 1..Len(s) : ~IsSpace(s[i])}
    IN  IF I = {} THEN <<>> ELSE SubSeq(s, Min(I), Max(I))

\* Python truthiness of an Optional[str]: None and "" are falsy
Truthy(o) == ~IsNone(o) /\ Val(o) # <<>>

(***************************************************************************)
(* PDFProcessor.clean_text                                                 *)
(***************************************************************************)
\* re.sub(r'\s+', ' ', text)
RECURSIVE CollapseWhitespace(_)
CollapseWhitespace(s) ==
    IF s = <<>> THEN <<>>
    ELSE IF IsSpace(Head(s))
         THEN <<" ">> \o Call(CollapseWhitespace, From(s, SpanSpace(s)))
         ELSE <<Head(s)>> \o Call(CollapseWhitespace, Tail(s))

\* re.sub(r'[^\w\s\-.,;:!?()%$...]', '', text)
RemoveSpecial(s) == SelectSeq(s, IsAllowed)

\* re.sub(r'\b\d{1,3}\b(?=\s*$)', '', text): the lookahead leaves only the
\* last word of the text as a possible match, which is removed when it is
\* a run of one to three digits standing between word boundaries.
RemoveTrailingPageNumber(s) ==
    LET NonSpace == {i \in 1..Len(s) : ~IsSpace(s[i])}
        q == IF NonSpace = {} THEN 0 ELSE Max(NonSpace)
        NonWord == {i \in 1..q : ~IsWord(s[i])}
        p == IF NonWord = {} THEN 1 ELSE Max(NonWord) + 1
    IN  IF /\ q > 0
           /\ p <= q
           /\ q - p + 1 <= 3
           /\ \A i \in p..q : IsDigit(s[i])
        THEN Upto(s, p - 1) \o From(s, q)
        ELSE s

\* re.sub(r'^page\s+\d+', '', text, flags=re.IGNORECASE)
RemoveLeadingPage(s) ==
    IF /\ Len(s) >= 6
       /\ <<Lower(s[1]), Lower(s[2]), Lower(s[3]), Lower(s[4])>>
              = <<"p", "a", "g", "e">>
       /\ SpanSpace(From(s, 4)) >= 1
       /\ SpanDigit(From(s, 4 + SpanSpace(From(s, 4)))) >= 1
    THEN LET sp == SpanSpace(From(s, 4))
         IN  From(s, 4 + sp + SpanDigit(From(s, 4 + sp)))
    ELSE s

clean_text(text) ==
    IF text = <<>> THEN <<>>
    ELSE LET collapsed == Call(CollapseWhitespace, text)
             filtered == Call(RemoveSpecial, collapsed)
             unnumbered == Call(RemoveTrailingPageNumber, filtered)
             unheaded == Call(RemoveLeadingPage, unnumbered)
         IN  Call(strip, unheaded)

(***************************************************************************)
(* PDFProcessor.limit_text_length                                          *)
(***************************************************************************)
\* variant of Ellipsis that separates the marker from the text
EllipsisSpaced == <<" ", ".", ".", ".">>

Ellipsis == <<".", ".", ".">>

\* variant of limit_text_length that cuts one character late
limit_text_length_wide(text) ==
    IF Len(text) <= max_chars THEN text
    ELSE Upto(text, max_chars + 1) \o Ellipsis

\* variant of limit_text_length that marks the text without cutting it
limit_text_length_uncut(text) ==
    IF Len(text) <= max_chars THEN text
    ELSE text \o Ellipsis

\* variant of limit_text_length without the early return
limit_text_length_always(text) ==
    LET truncated == Upto(text, Min({Len(text), max_chars}))
        last_space == rfind(truncated, " ")
    IN  IF last_space > 0
        THEN Upto(truncated, last_space) \o Ellipsis
        ELSE truncated \o Ellipsis

limit_text_length(text) ==
    IF Len(text) <= max_chars THEN text
    ELSE LET truncated == Upto(text, max_chars)
             last_period == rfind(truncated, ".")
             last_exclamation == rfind(truncated, "!")
             last_question == rfind(truncated, "?")
             last_sentence_end ==
                 Max({last_period, last_exclamation, last_question})
         IN  \* last_sentence_end > max_chars * 0.8
             IF 10 * last_sentence_end > 8 * max_chars
             THEN Upto(truncated, last_sentence_end + 1)
             ELSE LET last_space == rfind(truncated, " ")
                  IN  IF last_space > 0
                      THEN Upto(truncated, last_space) \o Ellipsis
                      ELSE truncated \o Ellipsis


(***************************************************************************)
(* Documents on disk.  A document is what PyPDF2 makes of the file:        *)
(*   exists        Path.exists()                                           *)
(*   corrupt       open() or PdfReader(file) raises                        *)
(*   pages         len(pdf_reader.pages)                                   *)
(*   text          first_page.extract_text()                               *)
(*   extractRaises extract_text() raises                                   *)
(***************************************************************************)
PageTexts ==
    { <<>>,
      <<" ", "\n">>,
      <<"7">>,
      <<"a">>,
      <<"P", "a", "g", "e", " ", "1", " ", "a", "b">>,
      <<"a", "b", " ", "a", "b", ".", "a", "b">> }

MissingDoc ==
    [exists |-> FALSE, corrupt |-> FALSE, pages |-> 0, text |-> <<>>,
     extractRaises |-> FALSE]
CorruptDoc ==
    [exists |-> TRUE, corrupt |-> TRUE, pages |-> 0, text |-> <<>>,
     extractRaises |-> FALSE]
EmptyDoc ==
    [exists |-> TRUE, corrupt |-> FALSE, pages |-> 0, text |-> <<>>,
     extractRaises |-> FALSE]
UnextractableDoc ==
    [exists |-> TRUE, corrupt |-> FALSE, pages |-> 1, text |-> <<>>,
     extractRaises |-> TRUE]
ReadableDocs ==
    { [exists |-> TRUE, corrupt |-> FALSE, pages |-> 1, text |-> t,
       extractRaises |-> FALSE] : t \in PageTexts }
    \cup { [exists |-> TRUE, corrupt |-> FALSE, pages |-> 2, text |-> <<"a">>,
            extractRaises |-> FALSE] }
ExistingDocs == {CorruptDoc, EmptyDoc, UnextractableDoc} \cup ReadableDocs
Docs == {MissingDoc} \cup ExistingDocs

(***************************************************************************)
(* PDFProcessor.get_pdf_metadata and extract_first_page_text               *)
(***************************************************************************)
FullMetadataKeys ==
    {"filename", "pages", "file_size", "title", "author", "subject",
     "creator"}
EmptyDict == [keys |-> {}, pages |-> 0, error |-> ""]

\* variant of metadata_except that adds the error to default metadata
metadata_except_defaults(msg) ==
    [keys |-> {"filename", "pages", "error"}, pages |-> 0, error |-> msg]

\* the except clause of get_pdf_metadata: the filename and str(e)
metadata_except(msg) ==
    [keys |-> {"filename", "error"}, pages |-> 0, error |-> msg]

\* open() raises on a missing file and PdfReader on a corrupt one, inside
\* the try block
get_pdf_metadata(d) ==
    IF ~d.exists
    THEN metadata_except("No such file or directory")
    ELSE IF d.corrupt
    THEN metadata_except("EOF marker not found")
    ELSE [keys |-> FullMetadataKeys, pages |-> d.pages, error |-> ""]

extract_first_page_text(d) ==
    IF ~d.exists THEN None
    ELSE IF d.corrupt THEN None
    ELSE IF d.pages = 0 THEN None
    ELSE IF d.extractRaises THEN None
    ELSE IF d.text = <<>> \/ strip(d.text) = <<>> THEN None
    ELSE Some(Call(limit_text_length, Call(clean_text, d.text)))

(***************************************************************************)
(* Configuration.  The environment holds the variables an operator has     *)
(* set; class Config copies the ones it names into class attributes.       *)
(***************************************************************************)
BackupAttr == "AZURE_OPENAI_DEPLOYMENT_NAME_35"

Envs ==
    { [AZURE_OPENAI_DEPLOYMENT_NAME |-> "gpt-4",
       AZURE_OPENAI_DEPLOYMENT_NAME_35 |-> b] : b \in {None, Some("gpt-35")} }

\* class Config: the attributes the class body defines, and their values
Config(e) ==
    [keys |-> {"AZURE_OPENAI_API_KEY", "AZURE_OPENAI_ENDPOINT",
               "AZURE_OPENAI_API_VERSION", "AZURE_OPENAI_DEPLOYMENT_NAME",
               "AZURE_OPENAI_MODEL_NAME", "BASE_DIR", "PDF_FOLDER",
               "SUMMARIES_FOLDER", "LOGS_FOLDER", "MAX_PAGES_TO_PROCESS",
               "MAX_CHARS_PER_PAGE", "MAX_RETRIES", "RETRY_DELAY"},
     AZURE_OPENAI_DEPLOYMENT_NAME |-> e.AZURE_OPENAI_DEPLOYMENT_NAME,
     AZURE_OPENAI_DEPLOYMENT_NAME_35 |-> None]

(***************************************************************************)
(* The remote completion endpoint: what one chat.completions.create call   *)
(* can produce.  "content" carries message.content, which may be None.     *)
(***************************************************************************)
Contents ==
    { None, Some(<<" ">>), Some(<<"s">>), Some(<<" ", "s">>) }
FailureKinds == {"rate_limit", "timeout", "error"}
Outcomes ==
    { [kind |-> "content", content |-> c] : c \in Contents }
    \cup { [kind |-> k, content |-> None] : k \in FailureKinds \cup {"no_choices"} }

(***************************************************************************)
(* State.                                                                  *)
(*   env        the process environment read by config.py                  *)
(*   pc         where the orchestrator stands (the stages of one document) *)
(*   entry      the public method the caller invoked                       *)
(*   ops        invocations made so far                                    *)
(*   doc        the PDF being processed                                    *)
(*   result     process_pdf's result dict                                  *)
(*   text       process_pdf's local text / summarize_text's argument       *)
(*   returned   the value handed back to the caller of run / process_pdf   *)
(*   storage    the files written to SUMMARIES_FOLDER, oldest first        *)
(*   cpc        where AzureLLMClient.summarize_text stands                 *)
(*   deployment the deployment _make_api_call is looping on                *)
(*   attempt    the loop variable of _make_api_call                        *)
(*   response   the value _make_api_call returned                          *)
(*   apiLog     the remote calls made by the current summarize_text call   *)
(*   sleeps     the time.sleep calls made by the current summarize_text    *)
(*   sumOut     how summarize_text ended: a returned value or an exception *)
(***************************************************************************)
VARIABLES env, pc, entry, ops, doc, result, text, returned, storage,
          cpc, deployment, attempt, response, apiLog, sleeps, sumOut

\* The text operations of PDFProcessor applied to one raw first-page text:
\*   tpc        which operation has been applied
\*   raw        the text PyPDF2 extracted from the first page
\*   once       limit_text_length(raw)
\*   twice      limit_text_length(once)
\*   extracted  extract_first_page_text of a readable page holding raw
VARIABLES tpc, raw, once, twice, extracted

textVars == <<tpc, raw, once, twice, extracted>>

\* KamcoInvestSpider.parse_page applied to one listing page:
\*   ppc        "idle", "page" (a response has arrived) or "parsed"
\*   dom        the elements of the response's HTML, in document order
\*   parsed     what parse_page selected and the requests it yielded
VARIABLES ppc, dom, parsed

pageVars == <<ppc, dom, parsed>>

\* One run of the spider (scrapy crawl kamco_crawler):
\*   spc         "idle", "crawling" (the start request is out) or "open"
\*   site        what the web site answers, per URL path
\*   downloaded  self.downloaded
\*   pending     the requests scheduled and not yet answered
\*   seen        the URLs the scheduler's duplicate filter has recorded
\*   files       the files save_pdf has opened for writing, oldest first
\*   handled     the callbacks that have run, each with what it found
VARIABLES spc, site, downloaded, pending, seen, files, handled

spiderVars == <<spc, site, downloaded, pending, seen, files, handled>>

\* what the summarizer pipeline leaves alone
otherVars == <<textVars, pageVars, spiderVars>>

\* parse_page has not run: no element selected, no link, no request
NothingParsed ==
    [targets |-> <<>>, first_element |-> 0, link |-> <<>>,
     requests |-> <<>>]

\* the site before a run has chosen one
NoSite == [start |-> "none", reports |-> <<>>, downloads |-> <<>>]

pipelineVars == <<env, pc, entry, ops, doc, result, text, returned, storage,
                  cpc, deployment, attempt, response, apiLog, sleeps, sumOut>>

vars == <<pipelineVars, textVars, pageVars, spiderVars>>

orchVars == <<pc, entry, ops, doc, result, text, returned, storage>>
clientVars == <<cpc, deployment, attempt, response, apiLog, sleeps, sumOut>>

EmptySummary == [keys |-> {}, Summary |-> <<>>]

\* process_pdf's initial result dict
InitialResult ==
    [keys |-> {"filename", "file_path", "processed_at", "success", "error",
               "metadata", "summary"},
     success |-> FALSE, error |-> None, metadata |-> EmptyDict,
     summary |-> EmptySummary, summary_file |-> None]

\* the dict run() builds in its except clause
FatalResult(msg) ==
    [keys |-> {"success", "error", "processed_at"},
     success |-> FALSE, error |-> Some(msg), metadata |-> EmptyDict,
     summary |-> EmptySummary, summary_file |-> None]

NoOutcome == [raised |-> None, value |-> None]
Returns(v) == [raised |-> None, value |-> v]
Raises(msg) == [raised |-> Some(msg), value |-> None]

\* the stages at which process_pdf returns its result dict
ProcessEnds ==
    {"Summarized", "NoTextFound", "SummarizationFailed", "ProcessFailed"}

\* a caller may invoke a public method when nothing is in progress
CanInvoke ==
    /\ ops < MaxOps
    /\ \/ pc = "Idle"
       \/ pc = "DirectDone"
       \/ ~IsNone(returned)

\* no text operation is in progress
TextIdle ==
    /\ tpc = "idle"
    /\ raw = <<>>
    /\ once = <<>>
    /\ twice = <<>>
    /\ extracted = None

\* the spider has not been started
SpiderIdle ==
    /\ spc = "idle"
    /\ site = NoSite
    /\ downloaded = FALSE
    /\ pending = {}
    /\ seen = {}
    /\ files = <<>>
    /\ handled = {}

\* no listing page is being parsed
PageIdle ==
    /\ ppc = "idle"
    /\ dom = <<>>
    /\ parsed = NothingParsed

PipelineIdle ==
    /\ env \in Envs
    /\ pc = "Idle"
    /\ entry = "none"
    /\ ops = 0
    /\ doc = MissingDoc
    /\ result = InitialResult
    /\ text = None
    /\ returned = None
    /\ storage = <<>>
    /\ cpc = "idle"
    /\ deployment = "primary"
    /\ attempt = 0
    /\ response = None
    /\ apiLog = <<>>
    /\ sleeps = <<>>
    /\ sumOut = NoOutcome

Init ==
    /\ PipelineIdle
    /\ TextIdle
    /\ PageIdle
    /\ SpiderIdle

(***************************************************************************)
(* AzureLLMClient                                                          *)
(***************************************************************************)
\* variant of _parse_response that leaves the completion text as received
parse_response_raw(r) == [keys |-> {"Summary"}, Summary |-> r]

\* _parse_response
parse_response(r) == [keys |-> {"Summary"}, Summary |-> strip(r)]

\* variant of RetrySleep without the exponential backoff
RetrySleepFlat(kind, k) == RETRY_DELAY

\* the argument of time.sleep in the except clauses of _make_api_call
RetrySleep(kind, k) ==
    IF kind = "rate_limit" THEN RETRY_DELAY * (2 ^ k) ELSE RETRY_DELAY

\* variant of SleepsBeforeRetry that sleeps after every failed attempt
SleepsAfterEveryFailure(k) == TRUE

\* "if attempt < self.config.MAX_RETRIES - 1" guarding each time.sleep
SleepsBeforeRetry(k) == k < MAX_RETRIES - 1

\* variant of LoopContinues with one round too many
LoopContinuesOffByOne(k) == k <= MAX_RETRIES

\* range(self.config.MAX_RETRIES): whether the for loop has another round
LoopContinues(k) == k < MAX_RETRIES

\* variant of SummarizeExcept that lets the exception propagate
SummarizeExceptReraise(msg) == Raises(msg)

\* the except clause of summarize_text: log the error, return None
SummarizeExcept(msg) == Returns(None)

\* variant of IsBlank that tests "if not text" only
IsBlankNoStrip(t) == ~Truthy(t)

\* "if not text or text.strip() == ''" at the top of summarize_text
IsBlank(t) == ~Truthy(t) \/ strip(Val(t)) = <<>>

\* summarize_text, up to the first _make_api_call
SummarizeText ==
    /\ pc \in {"TextExtracted", "Direct"}
    /\ cpc = "idle"
    /\ apiLog' = <<>>
    /\ sleeps' = <<>>
    /\ deployment' = "primary"
    /\ attempt' = 0
    /\ response' = None
    /\ IF IsBlank(text)
       THEN /\ sumOut' = Returns(None)
            /\ cpc' = "returned"
       ELSE /\ sumOut' = NoOutcome
            /\ cpc' = "api_call"
    /\ UNCHANGED <<otherVars, env, orchVars>>

\* one round of the for loop of _make_api_call; the round that ends the
\* loop also takes the "return None" that follows it
MakeApiCall ==
    /\ cpc = "api_call"
    /\ LoopContinues(attempt)
    /\ \E o \in Outcomes :
         /\ apiLog' = Append(apiLog,
                [deployment |-> deployment, attempt |-> attempt,
                 kind |-> o.kind, content |-> o.content])
         /\ IF o.kind \in {"content", "no_choices"}
            THEN /\ response' = o.content
                 /\ cpc' = "call_returned"
                 /\ UNCHANGED <<attempt, sleeps>>
            ELSE /\ sleeps' =
                      IF SleepsBeforeRetry(attempt)
                      THEN Append(sleeps,
                               [deployment |-> deployment,
                                attempt |-> attempt, kind |-> o.kind,
                                seconds |-> RetrySleep(o.kind, attempt)])
                      ELSE sleeps
                 /\ attempt' = attempt + 1
                 /\ response' = None
                 /\ cpc' = IF LoopContinues(attempt + 1)
                           THEN "api_call" ELSE "call_returned"
    /\ UNCHANGED <<otherVars, env, orchVars, deployment, sumOut>>

\* summarize_text after a _make_api_call has returned: the fallback to the
\* backup deployment, the check for None and the parsing of the response
SummarizeAfterCall ==
    /\ cpc = "call_returned"
    /\ LET cfg == Config(env)
       IN  IF deployment = "primary" /\ IsNone(response)
           THEN \* self.config.AZURE_OPENAI_DEPLOYMENT_NAME_35 is evaluated
                IF BackupAttr \notin cfg.keys
                THEN /\ sumOut' = SummarizeExcept(
                          "'Config' object has no attribute 'AZURE_OPENAI_DEPLOYMENT_NAME_35'")
                     /\ cpc' = "returned"
                     /\ UNCHANGED <<deployment, attempt>>
                ELSE IF ~IsNone(cfg.AZURE_OPENAI_DEPLOYMENT_NAME_35)
                THEN /\ deployment' = "backup"
                     /\ attempt' = 0
                     /\ cpc' = "api_call"
                     /\ UNCHANGED sumOut
                ELSE /\ sumOut' = Returns(None)
                     /\ cpc' = "returned"
                     /\ UNCHANGED <<deployment, attempt>>
           ELSE /\ sumOut' = IF IsNone(response)
                             THEN Returns(None)
                             ELSE Returns(Some(parse_response(Val(response))))
                /\ cpc' = "returned"
                /\ UNCHANGED <<deployment, attempt>>
    /\ UNCHANGED <<otherVars, env, orchVars, response, apiLog, sleeps>>

(***************************************************************************)
(* KamcoPDFSummarizer                                                      *)
(***************************************************************************)
DirectTexts == { <<>>, <<" ", "\n">>, <<"a">>, <<" ", "a">> }
WriteOutcomes == {"ok", "open_fails", "dump_fails"}

\* the state every invocation starts from
Invoke(method, d, t) ==
    /\ CanInvoke
    /\ ops' = ops + 1
    /\ entry' = method
    /\ doc' = d
    /\ text' = t
    /\ result' = InitialResult
    /\ cpc' = "idle"
    /\ deployment' = "primary"
    /\ attempt' = 0
    /\ response' = None
    /\ apiLog' = <<>>
    /\ sleeps' = <<>>
    /\ sumOut' = NoOutcome
    /\ UNCHANGED <<otherVars, env, storage>>

\* the except clause of run(): the fatal dict is returned
run_except(msg) == Some(FatalResult(msg))

\* run(), up to the call of process_pdf: an explicit path that does not
\* exist and an empty PDF_FOLDER both raise FileNotFoundError, which the
\* except clause of run turns into the fatal dict
Run ==
    \E explicit \in BOOLEAN, d \in Docs :
        /\ Invoke("run", d, None)
        /\ IF d.exists
           THEN /\ pc' = "Start"
                /\ returned' = None
           ELSE /\ pc' = "RunFailed"
                /\ returned' = run_except(
                       IF explicit THEN "PDF file not found"
                       ELSE "No PDF files found")

\* process_pdf called by another caller than run()
ProcessPdf ==
    \E d \in Docs :
        /\ Invoke("process_pdf", d, None)
        /\ pc' = "Start"
        /\ returned' = None

\* summarize_text called by another caller than process_pdf
Summarize ==
    \E t \in DirectTexts :
        /\ Invoke("summarize_text", MissingDoc, Some(t))
        /\ pc' = "Direct"
        /\ returned' = None

\* variant of process_except that swallows the exception
process_except_silent(r, msg) == r

\* the except clause of process_pdf: result['error'] = str(e)
process_except(r, msg) == [r EXCEPT !.error = Some(msg)]

\* variant of no_text_result that answers with a fresh dict
no_text_result_fresh(r) ==
    [InitialResult EXCEPT !.error = Some("No text extracted from first page")]

\* the "if not text" branch of process_pdf
no_text_result(r) ==
    [r EXCEPT !.error = Some("No text extracted from first page")]

\* the "if not summary" branch of process_pdf
no_summary_result(r) ==
    [r EXCEPT !.error = Some("Failed to generate summary")]

\* variant of reads_pages that finds the key in every structure
reads_pages_always(m) == TRUE

\* result['metadata']['pages'] in the log line: a KeyError unless the
\* structure has the key
reads_pages(m) == "pages" \in m.keys

\* process_pdf: get_pdf_metadata and the log line that reads ['pages']
GetMetadata ==
    /\ pc = "Start"
    /\ LET m == get_pdf_metadata(doc)
       IN  IF reads_pages(m)
           THEN /\ result' = [result EXCEPT !.metadata = m]
                /\ pc' = "MetadataExtracted"
           ELSE \* KeyError('pages'), caught by process_pdf
                /\ result' = process_except(
                                  [result EXCEPT !.metadata = m], "'pages'")
                /\ pc' = "ProcessFailed"
    /\ UNCHANGED <<otherVars, env,
                   entry, ops, doc, text, returned, storage, clientVars>>

\* variant of text_missing that tests for None alone
text_missing_none(t) == IsNone(t)

\* "if not text": None and the empty string
text_missing(t) == ~Truthy(t)

\* process_pdf: extract_first_page_text and "if not text"
ExtractText ==
    /\ pc = "MetadataExtracted"
    /\ LET t == extract_first_page_text(doc)
       IN  /\ text' = t
           /\ IF text_missing(t)
              THEN /\ result' = no_text_result(result)
                   /\ pc' = "NoTextFound"
              ELSE /\ pc' = "TextExtracted"
                   /\ UNCHANGED result
    /\ UNCHANGED <<otherVars, env,
                   entry, ops, doc, returned, storage, clientVars>>

\* Python truthiness of the value summarize_text returned
SummaryPresent(v) == ~IsNone(v) /\ Val(v).keys # {}

\* process_pdf after summarize_text has come back
ProcessSummary ==
    /\ pc = "TextExtracted"
    /\ cpc = "returned"
    /\ IF ~IsNone(sumOut.raised)
       THEN /\ result' = process_except(result, Val(sumOut.raised))
            /\ pc' = "ProcessFailed"
       ELSE IF ~SummaryPresent(sumOut.value)
       THEN /\ result' = no_summary_result(result)
            /\ pc' = "SummarizationFailed"
       ELSE /\ result' = [result EXCEPT !.summary = Val(sumOut.value),
                                        !.success = TRUE]
            /\ pc' = "Summarized"
    /\ UNCHANGED <<otherVars, env,
                   entry, ops, doc, text, returned, storage, clientVars>>

\* process_pdf returns to a caller other than run()
ProcessReturn ==
    /\ entry = "process_pdf"
    /\ pc \in ProcessEnds
    /\ IsNone(returned)
    /\ returned' = Some(result)
    /\ UNCHANGED <<otherVars, env,
                   pc, entry, ops, doc, result, text, storage, clientVars>>

\* variant of ShouldSave that saves whatever process_pdf returned
ShouldSaveAlways(r) == TRUE

\* "if result['success']" in run()
ShouldSave(r) == r.success

\* save_summary: open() may fail before anything is written, json.dump may
\* fail after part of the file has been written (the file then holds no
\* record: its content is modelled as the empty result)
save_summary(store, r, w) ==
    IF w = "ok" THEN Append(store, [complete |-> TRUE, record |-> r])
    ELSE IF w = "dump_fails"
    THEN Append(store, [complete |-> FALSE, record |-> InitialResult])
    ELSE store

\* run() after process_pdf has returned: save on success, return the result
RunReturn ==
    /\ entry = "run"
    /\ pc \in ProcessEnds
    /\ IsNone(returned)
    /\ IF ShouldSave(result)
       THEN \E w \in WriteOutcomes :
              /\ storage' = save_summary(storage, result, w)
              /\ IF w = "ok"
                 THEN LET saved == [result EXCEPT
                                 !.keys = @ \cup {"summary_file"},
                                 !.summary_file = Some("summary_path")]
                      IN  /\ result' = saved
                          /\ returned' = Some(saved)
                          /\ pc' = "Persisted"
                 ELSE /\ returned' = run_except(
                             IF w = "open_fails" THEN "Permission denied"
                             ELSE "Object is not JSON serializable")
                      /\ pc' = "RunFailed"
                      /\ UNCHANGED result
       ELSE /\ returned' = Some(result)
            /\ UNCHANGED <<pc, result, storage>>
    /\ UNCHANGED <<otherVars, env, entry, ops, doc, text, clientVars>>

\* summarize_text returns to a caller other than process_pdf
SummarizeReturn ==
    /\ pc = "Direct"
    /\ cpc = "returned"
    /\ pc' = "DirectDone"
    /\ UNCHANGED <<otherVars, env,
                   entry, ops, doc, result, text, returned, storage,
                   clientVars>>

Next ==
    \/ Run
    \/ ProcessPdf
    \/ Summarize
    \/ GetMetadata
    \/ ExtractText
    \/ SummarizeText
    \/ MakeApiCall
    \/ SummarizeAfterCall
    \/ ProcessSummary
    \/ ProcessReturn
    \/ RunReturn
    \/ SummarizeReturn

Spec == Init /\ [][Next]_vars

\* The program is one synchronous thread: a call that has started runs on
\* until it returns.  Whether a caller invokes anything is left open.
Step ==
    \/ GetMetadata
    \/ ExtractText
    \/ SummarizeText
    \/ MakeApiCall
    \/ SummarizeAfterCall
    \/ ProcessSummary
    \/ ProcessReturn
    \/ RunReturn
    \/ SummarizeReturn

FairSpec == Spec /\ WF_vars(Step)

(***************************************************************************)
(* PDFProcessor's text operations on every raw first-page text up to three *)
(* characters over the limit, written with a word character, a space and   *)
(* a sentence terminator.                                                  *)
(***************************************************************************)
TextAlphabet == {"a", " ", "."}
MaxRawLen == max_chars + Len(Ellipsis)
RawTexts == UNION { [1..n -> TextAlphabet] : n \in 0..MaxRawLen }

\* a readable one-page document whose first page holds t
PageWith(t) ==
    [exists |-> TRUE, corrupt |-> FALSE, pages |-> 1, text |-> t,
     extractRaises |-> FALSE]

TextInit ==
    /\ PipelineIdle
    /\ IsNone(env.AZURE_OPENAI_DEPLOYMENT_NAME_35)
    /\ tpc = "input"
    /\ raw \in RawTexts
    /\ once = <<>>
    /\ twice = <<>>
    /\ extracted = None
    /\ PageIdle
    /\ SpiderIdle

\* limit_text_length(raw)
LimitText ==
    /\ tpc = "input"
    /\ once' = limit_text_length(raw)
    /\ tpc' = "limited"
    /\ UNCHANGED <<pipelineVars, pageVars, spiderVars, raw, twice, extracted>>

\* limit_text_length applied to its own result
LimitAgain ==
    /\ tpc = "limited"
    /\ twice' = limit_text_length(once)
    /\ tpc' = "relimited"
    /\ UNCHANGED <<pipelineVars, pageVars, spiderVars, raw, once, extracted>>

\* extract_first_page_text on a page holding raw
ExtractPage ==
    /\ tpc = "input"
    /\ extracted' = extract_first_page_text(PageWith(raw))
    /\ tpc' = "extracted"
    /\ UNCHANGED <<pipelineVars, pageVars, spiderVars, raw, once, twice>>

TextNext ==
    \/ LimitText
    \/ LimitAgain
    \/ ExtractPage

TextSpec == TextInit /\ [][TextNext]_vars

(***************************************************************************)
(* HTML as the spider's XPath expressions see it.  A page is the sequence  *)
(* of its elements in document order; element i has                        *)
(*   parent   the index of its parent element, 0 for <body>                *)
(*   tag      "a" or "div"                                                 *)
(*   text     its first text node (XPath text() in a string context)       *)
(*   title    its title attribute, "" when absent                          *)
(*   class    its class attribute, "" when absent                          *)
(*   href     its href attribute, None when absent                         *)
(* Strings are sequences of characters; a URL is an origin and a path.     *)
(***************************************************************************)
UpperAlphabet ==
    <<"A", "B", "C", "D", "E", "F", "G", "H", "I", "J", "K", "L", "M",
      "N", "O", "P", "Q", "R", "S", "T", "U", "V", "W", "X", "Y", "Z">>
LowerAlphabet ==
    <<"a", "b", "c", "d", "e", "f", "g", "h", "i", "j", "k", "l", "m",
      "n", "o", "p", "q", "r", "s", "t", "u", "v", "w", "x", "y", "z">>

\* translate(s, "ABC...Z", "abc...z") of XPath
AsciiLower ==
    [c \in {UpperAlphabet[k] : k \in 1..Len(UpperAlphabet)} |->
        LowerAlphabet[CHOOSE k \in 1..Len(UpperAlphabet) :
                          UpperAlphabet[k] = c]]

translate(s) ==
    [i \in 1..Len(s) |->
        IF s[i] \in DOMAIN AsciiLower THEN AsciiLower[s[i]] ELSE s[i]]

\* str.lower() of Python, on the ASCII text of the pages
lower(s) == translate(s)

\* XPath contains(s, w) and Python "w in s"
contains(s, w) ==
    \E i \in 1..(Len(s) - Len(w) + 1) : SubSeq(s, i, i + Len(w) - 1) = w

kuwait == <<"k", "u", "w", "a", "i", "t">>
dash_en == <<"-", " ", "e", "n">>
dash_eng == <<"-", " ", "e", "n", "g">>

\* the elements of S, a set of indices, in document order
RECURSIVE InOrder(_)
InOrder(S) ==
    IF S = {} THEN <<>> ELSE <<Min(S)>> \o InOrder(S \ {Min(S)})

\* a is an ancestor of element j; <body> (0) is an ancestor of every element
RECURSIVE IsAncestor(_, _, _)
IsAncestor(d, a, j) ==
    IF j = 0 THEN FALSE
    ELSE d[j].parent = a \/ IsAncestor(d, a, d[j].parent)

\* XPath string(.): the text of the element and of its descendants
RECURSIVE Concat(_)
Concat(ss) == IF ss = <<>> THEN <<>> ELSE Head(ss) \o Concat(Tail(ss))

string_value(d, i) ==
    LET own == InOrder({j \in 1..Len(d) : j = i \/ IsAncestor(d, i, j)})
    IN  Concat([k \in 1..Len(own) |-> d[own[k]].text])

\* @href as a string: "" when the attribute is absent
href_string(n) == IF IsNone(n.href) THEN <<>> ELSE Val(n.href)

\* urljoin(base, href) for an href that is an absolute path
urljoin(base, href) == [origin |-> base.origin, path |-> href]

StartPath ==
    <<"/", "r", "e", "s", "e", "a", "r", "c", "h", "/",
      "t", "y", "p", "e", "/", "4", "5", "5">>

\* start_urls
StartUrl ==
    [origin |-> "https://www.kamcoinvest.com",
     path |-> StartPath]

\* scrapy.Request(url, callback)
Request(url, callback) == [url |-> url, callback |-> callback]

(***************************************************************************)
(* KamcoInvestSpider.parse_page                                            *)
(***************************************************************************)
\* the first XPath: elements whose text names Kuwait and "- en" or "- eng"
xpath_text_match(n) ==
    LET t == translate(n.text)
    IN  contains(t, kuwait) /\ (contains(t, dash_en) \/ contains(t, dash_eng))

all_text_elements(d) ==
    InOrder({i \in 1..Len(d) : xpath_text_match(d[i])})

\* the second XPath: anchors whose href, title or text names Kuwait
xpath_kuwait_link(n) ==
    /\ n.tag = "a"
    /\ \/ contains(translate(href_string(n)), kuwait)
       \/ contains(translate(n.title), kuwait)
       \/ contains(translate(n.text), kuwait)

kuwait_links(d) ==
    InOrder({i \in 1..Len(d) : xpath_kuwait_link(d[i])})

\* the test of the first loop, on string(.)
text_target(d, i) ==
    LET string == lower(string_value(d, i))
    IN  contains(string, kuwait)
        /\ (contains(string, dash_en) \/ contains(string, dash_eng))

\* the test of the second loop, on the text, the href and the title
link_target(d, i) ==
    LET link_text == lower(string_value(d, i))
        link_href == lower(href_string(d[i]))
        link_title == lower(d[i].title)
        full_text == link_text \o <<" ">> \o link_href \o <<" ">>
                         \o link_title
    IN  contains(full_text, kuwait)
        /\ (contains(full_text, dash_en) \/ contains(full_text, dash_eng))

\* target_elements after the two loops: the text elements, then the links
target_elements(d) ==
    SelectSeq(all_text_elements(d), LAMBDA i : text_target(d, i))
        \o SelectSeq(kuwait_links(d), LAMBDA i : link_target(d, i))

\* the anchors with an href among the elements of S
with_href(d, S) == {j \in S : d[j].tag = "a" /\ ~IsNone(d[j].href)}

\* .//a
descendant_anchors(d, c) ==
    with_href(d, {j \in 1..Len(d) : IsAncestor(d, c, j)})
\* ./following-sibling::*//a
following_sibling_anchors(d, c) ==
    with_href(d, {j \in 1..Len(d) :
        \E sib \in 1..Len(d) : /\ d[sib].parent = d[c].parent
                               /\ sib > c
                               /\ IsAncestor(d, sib, j)})
\* ./preceding-sibling::*//a
preceding_sibling_anchors(d, c) ==
    with_href(d, {j \in 1..Len(d) :
        \E sib \in 1..Len(d) : /\ d[sib].parent = d[c].parent
                               /\ sib < c
                               /\ IsAncestor(d, sib, j)})
\* ../a
parent_anchors(d, c) ==
    with_href(d, {j \in 1..Len(d) : d[j].parent = d[c].parent})
\* ../../a  (the parent of <body> is <html>, which has no anchor child)
grandparent_anchors(d, c) ==
    IF d[c].parent = 0 THEN {}
    ELSE with_href(d, {j \in 1..Len(d) :
                          d[j].parent = d[d[c].parent].parent})

\* the union of the five node-sets is a node-set, which XPath keeps in
\* document order; .get() takes its first node
nearby_link(d, c) ==
    LET found == descendant_anchors(d, c)
                     \cup following_sibling_anchors(d, c)
                     \cup preceding_sibling_anchors(d, c)
                     \cup parent_anchors(d, c)
                     \cup grandparent_anchors(d, c)
    IN  IF found = {} THEN None ELSE d[Min(found)].href

\* link, for first_element
element_link(d, c) ==
    IF d[c].tag = "a" THEN d[c].href ELSE nearby_link(d, c)

research_slash == <<"r", "e", "s", "e", "a", "r", "c", "h", "/">>

\* //a[contains(@href, "research/")]/@href
all_research_links(d) ==
    LET found == InOrder({i \in 1..Len(d) :
                            /\ d[i].tag = "a"
                            /\ contains(href_string(d[i]), research_slash)})
    IN  [k \in 1..Len(found) |-> Val(d[found[k]].href)]

\* the fallback loop of parse_page takes all_research_links[:5]
FallbackLimit == 5

\* variant of fallback_links that follows every research link
fallback_links_all(links) == links

\* all_research_links[:5]
fallback_links(links) == Upto(links, Min({FallbackLimit, Len(links)}))

\* parse_page(response) with self.downloaded = down: what it selected and
\* the requests it yielded
parse_page(url, d, down) ==
    IF down THEN NothingParsed
    ELSE LET targets == target_elements(d)
         IN  IF targets # <<>>
             THEN LET first_element == targets[1]
                      link == element_link(d, first_element)
                  IN  [targets |-> targets,
                       first_element |-> first_element,
                       link |-> link,
                       requests |->
                           IF Truthy(link)
                           THEN <<Request(urljoin(url, Val(link)),
                                          "parse_item")>>
                           ELSE <<>>]
             ELSE LET links == all_research_links(d)
                  IN  [targets |-> targets,
                       first_element |-> 0,
                       link |-> None,
                       requests |->
                           [k \in 1..Len(fallback_links(links)) |->
                               Request(urljoin(url, fallback_links(links)[k]),
                                       "check_page_for_kuwait")]]

(***************************************************************************)
(* parse_page on every listing page of up to MaxNodes elements.  An        *)
(* element is a <div> or an anchor; its text or (for an anchor) its title  *)
(* may name the Kuwait English report; every anchor has its own href.      *)
(***************************************************************************)
MaxNodes == 4

\* the parent vectors of the pages with n elements in document order: the
\* parent of an element is the element before it or one of its ancestors
RECURSIVE Above(_, _, _)
Above(p, a, j) ==
    IF j = 0 THEN FALSE ELSE p[j] = a \/ Above(p, a, p[j])

Shapes(n) ==
    { p \in [1..n -> 0..n] :
        \A i \in 1..n : /\ p[i] < i
                        /\ i > 1 => (p[i] = i - 1 \/ Above(p, p[i], i - 1)) }

KuwaitEN == <<"K", "u", "w", "a", "i", "t", " ", "-", " ", "E", "N">>
KuwaitENG ==
    <<"K", "U", "W", "A", "I", "T", " ", "-", " ", "E", "N", "G">>
ReportText == <<"R", "e", "p", "o", "r", "t">>

\* the href of the anchor at position i
Digits == <<"1", "2", "3", "4", "5", "6">>
DotPdf == <<".", "p", "d", "f">>
AnchorHref(i) == <<"/", "r", Digits[i]>> \o DotPdf

ElementKinds == {"div", "div_kuwait", "a", "a_kuwait", "a_title_kuwait"}

Element(kind, parent, i) ==
    [parent |-> parent,
     tag |-> IF kind \in {"div", "div_kuwait"} THEN "div" ELSE "a",
     text |-> IF kind \in {"div_kuwait", "a_kuwait"} THEN KuwaitEN
              ELSE IF kind = "a" THEN ReportText ELSE <<>>,
     title |-> IF kind = "a_title_kuwait" THEN KuwaitENG ELSE <<>>,
     class |-> <<>>,
     href |-> IF kind \in {"div", "div_kuwait"} THEN None
              ELSE Some(AnchorHref(i))]

\* an HTML parser never leaves an anchor inside an anchor
NoNestedAnchor(d) ==
    \A i, j \in 1..Len(d) :
        (d[i].tag = "a" /\ d[j].tag = "a") => ~IsAncestor(d, i, j)

\* the pages of up to max elements
Doms(max) ==
    UNION { { d \in { [i \in 1..n |-> Element(k[i], p[i], i)] :
                        p \in Shapes(n), k \in [1..n -> ElementKinds] } :
                NoNestedAnchor(d) } :
            n \in 0..max }

PageInit ==
    /\ PipelineIdle
    /\ IsNone(env.AZURE_OPENAI_DEPLOYMENT_NAME_35)
    /\ TextIdle
    /\ ppc = "page"
    /\ dom \in Doms(MaxNodes)
    /\ parsed = NothingParsed
    /\ SpiderIdle

\* parse_start_url: parse_page on the response of the start URL, before
\* any download
ParsePage ==
    /\ ppc = "page"
    /\ parsed' = parse_page(StartUrl, dom, FALSE)
    /\ ppc' = "parsed"
    /\ UNCHANGED <<pipelineVars, textVars, spiderVars, dom>>

PageNext == ParsePage

PageSpec == PageInit /\ [][PageNext]_vars

(***************************************************************************)
(* The web site the spider crawls.  Every URL has the origin of StartUrl;  *)
(* a response is                                                           *)
(*   ctype   its Content-Type header                                       *)
(*   magic   whether its body starts with %PDF                             *)
(*   title   the text of its <title>                                       *)
(*   dom     its elements (an HTML response only)                          *)
(***************************************************************************)
ListingTwoPath == StartPath \o <<"?", "p", "=", "2">>
ReportPath(i) == <<"/">> \o research_slash \o <<Digits[i]>>
DownloadPath(j) ==
    <<"/", "f", "/">> \o (IF j = 2 THEN kuwait ELSE <<>>) \o <<Digits[j]>>
        \o DotPdf

Anchor(href, label) ==
    [parent |-> 0, tag |-> "a", text |-> label, title |-> <<>>,
     class |-> <<>>, href |-> Some(href)]
Div(label) ==
    [parent |-> 0, tag |-> "div", text |-> label, title |-> <<>>,
     class |-> <<>>, href |-> None]

TextHtml == <<"t", "e", "x", "t", "/", "h", "t", "m", "l">>
ApplicationPdf ==
    <<"a", "p", "p", "l", "i", "c", "a", "t", "i", "o", "n", "/", "p", "d", "f">>
OctetStream ==
    <<"a", "p", "p", "l", "i", "c", "a", "t", "i", "o", "n", "/",
      "o", "c", "t", "e", "t", "-", "s", "t", "r", "e", "a", "m">>

HtmlPage(title, d) ==
    [ctype |-> TextHtml, magic |-> FALSE, title |-> title, dom |-> d]
BinaryPage(ctype, magic) ==
    [ctype |-> ctype, magic |-> magic, title |-> <<>>, dom |-> <<>>]

NextText == <<"N", "e", "x", "t">>
ListingTitle == <<"R", "e", "s", "e", "a", "r", "c", "h">>
MarketText == 
    <<"K", "u", "w", "a", "i", "t", " ", "M", "a", "r", "k", "e", "t", " ",
      "-", " ", "E", "N", "G", " ", "R", "e", "p", "o", "r", "t">>
PdfText == <<"P", "D", "F">>

\* the listing pages: the start page and, when it links to one, the next
StartKinds ==
    {"anchor", "anchor_next", "anchor_next_fallback", "fallback2",
     "fallback6", "no_link"}

StartDom(kind) ==
    IF kind = "anchor" THEN <<Anchor(ReportPath(1), KuwaitEN)>>
    ELSE IF kind \in {"anchor_next", "anchor_next_fallback"}
    THEN <<Anchor(ReportPath(1), KuwaitEN),
           Anchor(ListingTwoPath, NextText)>>
    ELSE IF kind = "fallback2"
    THEN [i \in 1..2 |-> Anchor(ReportPath(i), ReportText)]
    ELSE IF kind = "fallback6"
    THEN [i \in 1..6 |-> Anchor(ReportPath(i), ReportText)]
    ELSE <<Div(KuwaitEN)>>

ListingTwoDom(kind) ==
    IF kind = "anchor_next" THEN <<Anchor(ReportPath(2), KuwaitEN)>>
    ELSE <<Anchor(ReportPath(2), ReportText)>>

\* a report page: whether its body names the Kuwait English report, and
\* the downloads its anchors point to
ReportKinds(i) ==
    IF i = 1
    THEN [matches : BOOLEAN, links : {<<>>, <<1>>, <<1, 3>>}]
    ELSE [matches : BOOLEAN, links : {<<>>, <<2>>}]

\* the report pages beyond the second are the same on every site: only
\* the sixth names the Kuwait English report
ReportKind(s, i) ==
    IF i <= 2 THEN s.reports[i]
    ELSE IF i = 6 THEN [matches |-> TRUE, links |-> <<1>>]
    ELSE [matches |-> FALSE, links |-> <<>>]

ReportDom(kind) ==
    <<Div(IF kind.matches THEN MarketText ELSE ReportText)>>
        \o [k \in 1..Len(kind.links) |->
               Anchor(DownloadPath(kind.links[k]), PdfText)]

\* what a download URL answers
DownloadKinds(j) ==
    IF j = 1 THEN {"pdf", "magic", "octet", "html_next", "html_plain"}
    ELSE IF j = 2 THEN {"pdf", "html_next"}
    ELSE {"pdf", "html_plain"}

DownloadPage(kind, j) ==
    IF kind = "pdf" THEN BinaryPage(ApplicationPdf, TRUE)
    ELSE IF kind = "magic" THEN BinaryPage(OctetStream, TRUE)
    ELSE IF kind = "octet" THEN BinaryPage(OctetStream, FALSE)
    ELSE IF kind = "html_next"
    THEN HtmlPage(ListingTitle,
                  <<Anchor(DownloadPath((j % 3) + 1), PdfText)>>)
    ELSE HtmlPage(ListingTitle, <<Div(ReportText)>>)

Sites ==
    [start : StartKinds,
     reports : {r \in [1..2 -> ReportKinds(1) \cup ReportKinds(2)] :
                    r[1] \in ReportKinds(1) /\ r[2] \in ReportKinds(2)},
     downloads : {k \in [1..3 -> DownloadKinds(1)] :
                    \A j \in 1..3 : k[j] \in DownloadKinds(j)}]

\* the response to a GET of path on site s
Fetch(s, path) ==
    IF path = StartPath THEN HtmlPage(ListingTitle, StartDom(s.start))
    ELSE IF path = ListingTwoPath
    THEN HtmlPage(ListingTitle, ListingTwoDom(s.start))
    ELSE IF \E i \in 1..6 : path = ReportPath(i)
    THEN LET i == CHOOSE i \in 1..6 : path = ReportPath(i)
         IN  HtmlPage(ListingTitle, ReportDom(ReportKind(s, i)))
    ELSE LET j == CHOOSE j \in 1..3 : path = DownloadPath(j)
         IN  DownloadPage(s.downloads[j], j)

\* response.xpath raises NotSupported on a response that is not text
IsText(page) == page.ctype = TextHtml

(***************************************************************************)
(* KamcoInvestSpider: check_page_for_kuwait, parse_item, generate_filename *)
(* and save_pdf                                                            *)
(***************************************************************************)
download_word == <<"d", "o", "w", "n", "l", "o", "a", "d">>
btn_word == <<"b", "t", "n">>
file_word == <<"f", "i", "l", "e">>
document_word == <<"d", "o", "c", "u", "m", "e", "n", "t">>

\* string(//body): the text of every element of the page
body_text(d) == Concat([i \in 1..Len(d) |-> d[i].text])

\* the test of check_page_for_kuwait
page_matches(d) ==
    LET page_text == lower(body_text(d))
    IN  contains(page_text, kuwait)
        /\ (contains(page_text, dash_en) \/ contains(page_text, dash_eng))

\* the anchors the four XPath expressions of parse_item find
is_pdf_anchor(n) ==
    /\ n.tag = "a"
    /\ ~IsNone(n.href)
    /\ \/ contains(Val(n.href), DotPdf)
       \/ contains(n.class, download_word)
       \/ contains(translate(n.text), download_word)
       \/ contains(Val(n.href), download_word)
       \/ /\ contains(n.class, btn_word)
          /\ contains(Val(n.href), DotPdf) \/ contains(n.text, PdfText)

\* list(set(...)) of the links that are not empty, blank or a fragment
pdf_links(d) ==
    {l \in {Val(d[i].href) : i \in {i \in 1..Len(d) : is_pdf_anchor(d[i])}} :
        l # <<>> /\ Head(l) # "#" /\ strip(l) # <<>>}

kuwait_pdfs(links) == {l \in links : contains(lower(l), kuwait)}

\* //a[contains(@href, "download") or contains(@href, "file") or ...]/@href
doc_links(d) ==
    LET found == InOrder({i \in 1..Len(d) :
                            /\ d[i].tag = "a"
                            /\ ~IsNone(d[i].href)
                            /\ \/ contains(Val(d[i].href), download_word)
                               \/ contains(Val(d[i].href), file_word)
                               \/ contains(Val(d[i].href), document_word)})
    IN  [k \in 1..Len(found) |-> Val(d[found[k]].href)]

\* the links parse_item may take: element 0 of a list made from a set is
\* any element of the set, as the order of a set of str changes from one
\* interpreter run to the next
parse_item_choices(d, down) ==
    IF down THEN {None}
    ELSE IF pdf_links(d) # {}
    THEN IF kuwait_pdfs(pdf_links(d)) # {}
         THEN {Some(l) : l \in kuwait_pdfs(pdf_links(d))}
         ELSE {Some(l) : l \in pdf_links(d)}
    ELSE IF doc_links(d) # <<>> THEN {Some(doc_links(d)[1])}
    ELSE {None}

\* os.path.basename and str.endswith
basename(path) == From(path, rfind(path, "/") + 1)
endswith(str, suffix) ==
    /\ Len(str) >= Len(suffix)
    /\ SubSeq(str, Len(str) - Len(suffix) + 1, Len(str)) = suffix

\* urlparse(url).path
url_path(url) ==
    IF \E i \in 1..Len(url.path) : url.path[i] = "?"
    THEN Upto(url.path,
              Min({i \in 1..Len(url.path) : url.path[i] = "?"}) - 1)
    ELSE url.path

TimestampName ==
    <<"K", "u", "w", "a", "i", "t", "_", "R", "e", "p", "o", "r", "t", "_">>
        \o <<"%Y%m%d_%H%M%S">> \o DotPdf

IsTitleChar(c) ==
    \/ c \in DOMAIN AsciiLower
    \/ c \in {LowerAlphabet[k] : k \in 1..Len(LowerAlphabet)}
    \/ c \in DigitChars \cup {"_", "-"}
    \/ IsSpace(c)

generate_filename(url, page) ==
    LET filename == basename(url_path(url))
    IN  IF filename # <<>> /\ endswith(filename, DotPdf) THEN filename
        ELSE LET title == strip(page.title)
             IN  IF title # <<>> /\ contains(lower(title), kuwait)
                 THEN LET kept == SelectSeq(title, IsTitleChar)
                          clean_title ==
                              [i \in 1..Len(CollapseWhitespace(kept)) |->
                                  IF IsSpace(CollapseWhitespace(kept)[i])
                                  THEN "_"
                                  ELSE CollapseWhitespace(kept)[i]]
                      IN  Upto(clean_title, Min({50, Len(clean_title)}))
                              \o DotPdf
                 ELSE TimestampName

\* variant of is_pdf_response that trusts any response
is_pdf_response_any(page) == TRUE

\* 'pdf' in content_type or response.body.startswith(b'%PDF')
is_pdf_response(page) ==
    contains(lower(page.ctype), <<"p", "d", "f">>) \/ page.magic

\* //a[contains(@href, ".pdf")]/@href of save_pdf
redirect_links(d) ==
    LET found == InOrder({i \in 1..Len(d) :
                            /\ d[i].tag = "a"
                            /\ ~IsNone(d[i].href)
                            /\ contains(Val(d[i].href), DotPdf)})
    IN  [k \in 1..Len(found) |-> Val(d[found[k]].href)]

\* variant of returns_early that ignores the flag
returns_early_never(down) == FALSE

\* "if self.downloaded: return" of save_pdf
returns_early(down) == down

\* the allow pattern of the rule, r'research/type/455'
rule_links(d) ==
    LET found == InOrder({i \in 1..Len(d) :
                            /\ d[i].tag = "a"
                            /\ ~IsNone(d[i].href)
                            /\ contains(Val(d[i].href), Tail(StartPath))})
    IN  [k \in 1..Len(found) |-> Val(d[found[k]].href)]

(***************************************************************************)
(* The crawl.  A scheduled request carries its URL, its callback and its   *)
(* meta (the filename); root and hops record where it comes from: the      *)
(* listing page its chain started at and the number of save_pdf responses  *)
(* that were not a PDF before it.                                          *)
(***************************************************************************)
Scheduled(req, filename, root, hops) ==
    [url |-> req.url, callback |-> req.callback, filename |-> filename,
     root |-> root, hops |-> hops]

\* the scheduler drops a request whose URL its duplicate filter has seen
RECURSIVE Enqueue(_, _, _)
Enqueue(queue, urls, new) ==
    IF new = <<>> THEN [pending |-> queue, seen |-> urls]
    ELSE IF Head(new).url \in urls THEN Enqueue(queue, urls, Tail(new))
    ELSE Enqueue(queue \cup {Head(new)}, urls \cup {Head(new).url},
                 Tail(new))

\* a callback that has run: the flag it found, the branch it took, the
\* requests it yielded and the item it yielded
Handled(e, branch, new, item) ==
    [url |-> e.url, callback |-> e.callback, root |-> e.root,
     hops |-> e.hops, down |-> downloaded, branch |-> branch,
     yielded |-> {[url |-> new[k].url, callback |-> new[k].callback] :
                     k \in 1..Len(new)},
     item |-> item]

\* start_requests: the start URL, which the duplicate filter lets pass
StartRequest ==
    Scheduled(Request(StartUrl, "parse_start_url"), <<>>, StartPath, 0)

SpiderInit ==
    /\ PipelineIdle
    /\ IsNone(env.AZURE_OPENAI_DEPLOYMENT_NAME_35)
    /\ TextIdle
    /\ PageIdle
    /\ spc = "crawling"
    /\ site \in Sites
    /\ downloaded = FALSE
    /\ pending = {StartRequest}
    /\ seen = {}
    /\ files = <<>>
    /\ handled = {}

\* the callback has run on the response to e and yielded new and item
Answer(e, branch, new, item) ==
    /\ pending' = Enqueue(pending \ {e}, seen, new).pending
    /\ seen' = Enqueue(pending \ {e}, seen, new).seen
    /\ handled' = handled \cup {Handled(e, branch, new, item)}
    /\ UNCHANGED <<pipelineVars, textVars, pageVars, spc, site>>

\* the branch of parse_page that ran
PageBranch(out) ==
    IF downloaded THEN "stopped"
    ELSE IF out.targets = <<>> THEN "fallback"
    ELSE IF out.requests = <<>> THEN "no_link"
    ELSE "candidate"

\* the requests parse_page yielded, as scheduled
PageRequests(e, out) ==
    [k \in 1..Len(out.requests) |->
        Scheduled(out.requests[k], <<>>, e.root, 0)]

\* parse_start_url on the response of the start URL, and the links the
\* rule of the CrawlSpider follows from it
ParseStartUrl ==
    \E e \in pending :
        /\ e.callback = "parse_start_url"
        /\ LET page == Fetch(site, e.url.path)
               out == parse_page(e.url, page.dom, downloaded)
               follow == [k \in 1..Len(rule_links(page.dom)) |->
                            Scheduled(
                                Request(urljoin(e.url,
                                                rule_links(page.dom)[k]),
                                        "parse_page"),
                                <<>>, rule_links(page.dom)[k], 0)]
           IN  Answer(e, PageBranch(out), PageRequests(e, out) \o follow,
                      "none")
        /\ UNCHANGED <<downloaded, files>>

\* parse_page on a listing page the rule followed
ParseListing ==
    \E e \in pending :
        /\ e.callback = "parse_page"
        /\ LET page == Fetch(site, e.url.path)
               out == parse_page(e.url, page.dom, downloaded)
           IN  Answer(e, PageBranch(out), PageRequests(e, out), "none")
        /\ UNCHANGED <<downloaded, files>>

\* parse_item on the response to e, taking link (None: no link to take)
ItemRequests(e, page, link) ==
    IF IsNone(link) THEN <<>>
    ELSE <<Scheduled(
               Request(urljoin(e.url, Val(link)), "save_pdf"),
               generate_filename(urljoin(e.url, Val(link)), page),
               e.root, 0)>>

ItemBranch(link) ==
    IF downloaded THEN "stopped"
    ELSE IF IsNone(link) THEN "no_pdf_link"
    ELSE "pdf_link"

\* parse_item yields its summary item unless it returned at the flag
ItemItem == IF downloaded THEN "none" ELSE "page"

ParseItem ==
    \E e \in pending :
        /\ e.callback = "parse_item"
        /\ LET page == Fetch(site, e.url.path)
           IN  \E link \in parse_item_choices(page.dom, downloaded) :
                   Answer(e, ItemBranch(link), ItemRequests(e, page, link),
                          ItemItem)
        /\ UNCHANGED <<downloaded, files>>

\* check_page_for_kuwait: parse_item on a page that matches, else nothing
CheckPageForKuwait ==
    \E e \in pending :
        /\ e.callback = "check_page_for_kuwait"
        /\ LET page == Fetch(site, e.url.path)
           IN  IF page_matches(page.dom)
               THEN \E link \in parse_item_choices(page.dom, downloaded) :
                        Answer(e, ItemBranch(link),
                               ItemRequests(e, page, link), ItemItem)
               ELSE Answer(e, "no_match", <<>>, "none")
        /\ UNCHANGED <<downloaded, files>>

\* open() may fail before anything is written and f.write() after part of
\* the body has been written
PdfWrites == {"ok", "open_fails", "write_fails"}

\* variant of flag_after_write that sets the flag whatever the write did
flag_after_write_always(w, down) == TRUE

\* self.downloaded = True follows the with block: an exception raised by
\* open() or f.write() leaves the flag as it was
flag_after_write(w, down) == IF w = "ok" THEN TRUE ELSE down

SavePdf ==
    \E e \in pending :
        /\ e.callback = "save_pdf"
        /\ LET page == Fetch(site, e.url.path)
           IN  IF returns_early(downloaded)
               THEN /\ Answer(e, "stopped", <<>>, "none")
                    /\ UNCHANGED <<downloaded, files>>
               ELSE IF is_pdf_response(page)
               THEN \E w \in PdfWrites :
                        /\ files' =
                               IF w = "open_fails" THEN files
                               ELSE Append(files,
                                           [filename |-> e.filename,
                                            source |-> e.url.path,
                                            complete |-> w = "ok"])
                        /\ downloaded' = flag_after_write(w, downloaded)
                        /\ Answer(e, "pdf", <<>>,
                                  IF w = "ok" THEN "success" ELSE "failure")
               ELSE IF IsText(page) /\ redirect_links(page.dom) # <<>>
               THEN /\ Answer(e, "redirect",
                              <<Scheduled(
                                    Request(urljoin(e.url,
                                                redirect_links(page.dom)[1]),
                                            "save_pdf"),
                                    e.filename, e.root, e.hops + 1)>>,
                              "none")
                    /\ UNCHANGED <<downloaded, files>>
               ELSE \* no link, or response.xpath raised: the error item
                    /\ Answer(e, "not_pdf", <<>>, "failure")
                    /\ UNCHANGED <<downloaded, files>>

\* the engine closes the spider when nothing is scheduled any more
CloseSpider ==
    /\ spc = "crawling"
    /\ pending = {}
    /\ spc' = "closed"
    /\ UNCHANGED <<pipelineVars, textVars, pageVars, site, downloaded,
                   pending, seen, files, handled>>

SpiderNext ==
    \/ ParseStartUrl
    \/ ParseListing
    \/ CheckPageForKuwait
    \/ ParseItem
    \/ SavePdf
    \/ CloseSpider

SpiderSpec == SpiderInit /\ [][SpiderNext]_vars

\* the engine answers every scheduled request and then closes the spider
FairSpiderSpec == SpiderSpec /\ WF_vars(SpiderNext)

(***************************************************************************)
(* Properties                                                              *)
(***************************************************************************)
\* the remote calls the current summarize_text call made to deployment d
CallsTo(d) == SelectSeq(apiLog, LAMBDA c : c.deployment = d)

\* the primary deployment's _make_api_call has returned None
PrimaryYieldedNone ==
    LET calls == CallsTo("primary")
    IN  /\ calls # <<>>
        /\ LET last == calls[Len(calls)]
           IN  \/ last.kind = "no_choices"
               \/ last.kind = "content" /\ IsNone(last.content)
               \/ last.kind \in FailureKinds /\ last.attempt = MAX_RETRIES - 1

\* the primary deployment's loop ran out of attempts
PrimaryExhausted ==
    LET calls == CallsTo("primary")
    IN  /\ Len(calls) = MAX_RETRIES
        /\ \A i \in 1..Len(calls) : calls[i].kind \in FailureKinds

RunDone == entry = "run" /\ ~IsNone(returned)
ProcessDone == entry = "process_pdf" /\ ~IsNone(returned)

\* C1 (as claimed): every record returned by run or process_pdf with
\* success=true has error None and a non-empty summary text, and every
\* record with success=false has no summary_file entry.
C1_ResultRecordInvariant ==
    (RunDone \/ ProcessDone) =>
        LET r == Val(returned)
        IN  /\ r.success =>
                /\ IsNone(r.error)
                /\ "Summary" \in r.summary.keys
                /\ r.summary.Summary # <<>>
            /\ ~r.success => "summary_file" \notin r.keys

\* the sleeps the retry policy prescribes for a log of remote calls: one
\* after every failed attempt that is followed by another attempt
RECURSIVE PrescribedSleeps(_)
PrescribedSleeps(log) ==
    IF log = <<>> THEN <<>>
    ELSE LET c == Head(log)
         IN  IF c.kind \in FailureKinds /\ c.attempt + 1 < MAX_RETRIES
             THEN << IF c.kind = "rate_limit"
                     THEN RETRY_DELAY * (2 ^ c.attempt)
                     ELSE RETRY_DELAY >> \o PrescribedSleeps(Tail(log))
             ELSE PrescribedSleeps(Tail(log))

SleepSeconds == [i \in 1..Len(sleeps) |-> sleeps[i].seconds]

\* rate limit on attempts 1 and 2, content on attempt 3
RateRateContent ==
    /\ Len(apiLog) = 3
    /\ apiLog[1].kind = "rate_limit"
    /\ apiLog[2].kind = "rate_limit"
    /\ apiLog[3].kind = "content"
    /\ ~IsNone(apiLog[3].content)

\* C2: the sleep before the retry that follows failed attempt k is
\* RETRY_DELAY * 2^k after a rate limit and RETRY_DELAY after a timeout or
\* any other failure; rate limit, rate limit, success yields the third
\* attempt's content after sleeps of RETRY_DELAY and 2 * RETRY_DELAY.
C2_BackoffSleeps ==
    /\ SleepSeconds = PrescribedSleeps(apiLog)
    /\ \A i \in 1..Len(sleeps) :
           /\ sleeps[i].kind \in FailureKinds
           /\ sleeps[i].attempt < MAX_RETRIES - 1
    /\ (RateRateContent /\ cpc \in {"call_returned", "returned"}) =>
           /\ response = apiLog[3].content
           /\ SleepSeconds = <<RETRY_DELAY, 2 * RETRY_DELAY>>

C2_Witness ==
    /\ RateRateContent
    /\ cpc = "returned"
    /\ Len(sleeps) = 2
    /\ sumOut.value = Some(parse_response(Val(apiLog[3].content)))

\* a backup deployment identifier is set in the configuration source
BackupConfigured == ~IsNone(env.AZURE_OPENAI_DEPLOYMENT_NAME_35)

\* C3 (as claimed): when the primary deployment exhausts its retries and a
\* backup deployment identifier is configured, the backup is tried, and a
\* backup that succeeds on its first attempt decides the result.
C3_BackupTried ==
    (cpc = "returned" /\ PrimaryExhausted /\ BackupConfigured) =>
        LET calls == CallsTo("backup")
        IN  /\ calls # <<>>
            /\ (calls[1].kind = "content" /\ ~IsNone(calls[1].content)) =>
                   sumOut = Returns(Some(parse_response(Val(calls[1].content))))

\* C4: when the primary deployment yields None and class Config defines no
\* backup attribute, summarize_text makes no further remote call, raises
\* nothing and returns None.
C4_NoBackupAttribute ==
    (cpc = "returned" /\ PrimaryYieldedNone
        /\ BackupAttr \notin Config(env).keys) =>
        /\ CallsTo("backup") = <<>>
        /\ Len(apiLog) <= MAX_RETRIES
        /\ IsNone(sumOut.raised)
        /\ IsNone(sumOut.value)

C4_Witness ==
    /\ cpc = "returned"
    /\ PrimaryExhausted
    /\ BackupAttr \notin Config(env).keys
    /\ sumOut = Returns(None)

\* the retry loop of the deployment in hand ran out of attempts
LoopExhausted ==
    LET calls == CallsTo(deployment)
    IN  /\ Len(calls) = MAX_RETRIES
        /\ \A i \in 1..Len(calls) : calls[i].kind \in FailureKinds

C5_CallsBounded ==
    /\ Len(CallsTo("primary")) <= MAX_RETRIES
    /\ Len(CallsTo("backup")) <= MAX_RETRIES
    /\ Len(apiLog) <= 2 * MAX_RETRIES
    /\ attempt <= MAX_RETRIES
    /\ IsNone(sumOut.raised)
    /\ (cpc = "call_returned" /\ LoopExhausted) => IsNone(response)

\* C5: whatever the remote outcomes, the retry loop of one deployment makes
\* at most MAX_RETRIES remote calls, ends, and on exhaustion returns None
\* instead of raising; one summarize_text call makes at most
\* 2 * MAX_RETRIES remote calls.
C5_RetryLoopTerminates ==
    /\ []C5_CallsBounded
    /\ (cpc = "api_call") ~> (cpc = "returned")

C5_Witness ==
    /\ cpc = "returned"
    /\ LoopExhausted
    /\ Len(apiLog) = MAX_RETRIES
    /\ sumOut = Returns(None)

\* "" or whitespace only
BlankString(t) == \A i \in 1..Len(t) : IsSpace(t[i])

\* C6: summarize_text called with empty or whitespace-only text returns
\* None without a remote call and without sleeping.
C6_BlankTextNoCall ==
    (cpc # "idle" /\ ~IsNone(text) /\ BlankString(Val(text))) =>
        /\ cpc = "returned"
        /\ sumOut = Returns(None)
        /\ apiLog = <<>>
        /\ sleeps = <<>>

C6_Witness ==
    /\ pc = "DirectDone"
    /\ text = Some(<<" ", "\n">>)
    /\ sumOut = Returns(None)
    /\ apiLog = <<>>

FailureStages == {"NoTextFound", "SummarizationFailed", "ProcessFailed"}

\* a run in progress hands its result back in this step
RunCompletes ==
    /\ entry = "run"
    /\ ops' = ops
    /\ IsNone(returned)
    /\ ~IsNone(returned')

\* this step adds a complete summary record to the storage
RecordWritten ==
    /\ Len(storage') = Len(storage) + 1
    /\ storage'[Len(storage')].complete

\* C7: a summary record is written only on the success path; a run that
\* ended with NoTextFound, SummarizationFailed or a caught exception writes
\* nothing and still returns the failure result.
C7_PersistOnlyOnSuccess ==
    [][ /\ storage' # storage =>
              /\ entry = "run"
              /\ pc = "Summarized"
              /\ result.success
              /\ SubSeq(storage', 1, Len(storage)) = storage
        /\ RecordWritten => pc' = "Persisted"
        /\ (RunCompletes /\ pc' \in FailureStages) =>
              /\ storage' = storage
              /\ returned' = Some(result)
              /\ ~result.success
        /\ (RunCompletes /\ pc' = "RunFailed") =>
              /\ ~Val(returned').success
              /\ ~RecordWritten
      ]_vars

C7_Witness ==
    /\ RunDone
    /\ pc \in FailureStages
    /\ ~Val(returned).success
    /\ Len(storage) = 1
    /\ storage[1].complete

C8_ReturnedRecord ==
    RunDone =>
        LET r == Val(returned)
        IN  /\ {"success", "error"} \subseteq r.keys
            /\ ~r.success => (~IsNone(r.error) /\ Val(r.error) # "")

\* C8: no exception of any stage escapes run: every run ends by returning
\* a result record, and a record with success=false has a non-empty error.
C8_RunAlwaysReturnsRecord ==
    /\ []C8_ReturnedRecord
    /\ (entry = "run" /\ IsNone(returned)) ~> RunDone

C8_Witness ==
    /\ RunDone
    /\ pc = "ProcessFailed"
    /\ Val(returned).error = Some("'pages'")
    /\ ops = 2

MainStages ==
    {"Start", "MetadataExtracted", "TextExtracted", "Summarized", "Persisted"}
StageSuccessor ==
    { <<"Start", "MetadataExtracted">>, <<"MetadataExtracted", "TextExtracted">>,
      <<"TextExtracted", "Summarized">>, <<"Summarized", "Persisted">> }

C9_EarlyExitKeepsMetadata ==
    pc \in {"NoTextFound", "SummarizationFailed"} =>
        /\ ~result.success
        /\ "pages" \in result.metadata.keys
        /\ result.metadata = get_pdf_metadata(doc)
        /\ ~IsNone(returned) => returned = Some(result)

\* C9: one document passes the stages only in the order Start,
\* MetadataExtracted, TextExtracted, Summarized, Persisted, none skipped or
\* revisited; NoTextFound and SummarizationFailed end with success=false
\* and keep the extracted metadata in the returned record.
C9_StageOrder ==
    /\ [][ (ops' = ops /\ pc' # pc) =>
              /\ pc' \in MainStages => <<pc, pc'>> \in StageSuccessor
              /\ pc' = "NoTextFound" => pc = "MetadataExtracted"
              /\ pc' = "SummarizationFailed" => pc = "TextExtracted"
         ]_vars
    /\ [][ ops' # ops => pc' \in {"Start", "RunFailed", "Direct"} ]_vars
    /\ []C9_EarlyExitKeepsMetadata

C9_Witness ==
    /\ RunDone
    /\ pc = "NoTextFound"
    /\ doc.text = <<"7">>
    /\ Val(returned).metadata.pages = 1
    /\ "pages" \in Val(returned).metadata.keys

\* a readable PDF with one page of non-empty text
OnePageDoc(d) ==
    /\ d.exists
    /\ ~d.corrupt
    /\ ~d.extractRaises
    /\ d.pages = 1
    /\ ~BlankString(d.text)

\* every remote call made was answered with content
EndpointAnswers ==
    \A i \in 1..Len(apiLog) :
        apiLog[i].kind = "content" /\ ~IsNone(apiLog[i].content)

\* this step appends one complete record with success=true, pages=1 and
\* the summary text t
PersistsOne(t) ==
    /\ pc' = "Persisted"
    /\ storage' # <<>>
    /\ storage' = Append(storage, storage'[Len(storage')])
    /\ LET f == storage'[Len(storage')]
       IN  /\ f.complete
           /\ f.record.success
           /\ "pages" \in f.record.metadata.keys
           /\ f.record.metadata.pages = 1
           /\ "Summary" \in f.record.summary.keys
           /\ f.record.summary.Summary = t

C12_AsClaimed ==
    (tpc = "extracted" /\ ~IsNone(extracted))
        => Len(Val(extracted)) <= max_chars

(***************************************************************************)
(* C12 - the text extract_first_page_text hands to the summarizer is never *)
(* longer than max_chars plus the three characters of the ellipsis marker, *)
(* for every raw first-page text.                                          *)
(***************************************************************************)
C12_ExtractedBounded ==
    (tpc = "extracted" /\ ~IsNone(extracted))
        => Len(Val(extracted)) <= max_chars + 3

\* a page over the limit comes back as max_chars characters and the marker
C12_Witness ==
    /\ tpc = "extracted"
    /\ ~IsNone(extracted)
    /\ Len(raw) > max_chars
    /\ Len(Val(extracted)) = max_chars + 3

(***************************************************************************)
(* C13 - as claimed: for every text longer than max_chars,                 *)
(* limit_text_length never returns a string longer than the text.          *)
(***************************************************************************)
C13_AsClaimed ==
    (tpc = "limited" /\ Len(raw) > max_chars) => Len(once) <= Len(raw)

(***************************************************************************)
(* C13 - for every text at least three characters (the marker's length)    *)
(* longer than max_chars, limit_text_length never returns a string longer  *)
(* than the text; a text one or two characters over the limit comes back   *)
(* at most two characters longer than it was.                              *)
(***************************************************************************)
C13_NeverLongerBeyondMarker ==
    (tpc = "limited" /\ Len(raw) > max_chars)
        => /\ Len(once) <= Len(raw) + 2
           /\ Len(raw) >= max_chars + 3 => Len(once) <= Len(raw)

\* a text three characters over the limit comes back exactly as long
C13_Witness ==
    /\ tpc = "limited"
    /\ Len(raw) = max_chars + 3
    /\ Len(once) = Len(raw)
    /\ once # raw

(***************************************************************************)
(* C14 - for every text longer than max_chars, limit_text_length returns a *)
(* string of at most max_chars + 3 characters (3 being the length of the   *)
(* ellipsis marker); it returns a string for every such text.              *)
(***************************************************************************)
C14_LimitBounded ==
    (tpc = "limited" /\ Len(raw) > max_chars)
        => /\ once \in Seq(TextAlphabet)
           /\ Len(once) <= max_chars + 3

\* a text over the limit without a space or a sentence end reaches the bound
C14_Witness ==
    /\ tpc = "limited"
    /\ Len(raw) > max_chars
    /\ once = Upto(raw, max_chars) \o <<".", ".", ".">>

(***************************************************************************)
(* C15 - as claimed: limit_text_length is idempotent for every text:       *)
(* applying it to its own result gives that result again.                  *)
(***************************************************************************)
C15_AsClaimed ==
    tpc = "relimited" => twice = once

(***************************************************************************)
(* C15 - limit_text_length is idempotent once its output is within the     *)
(* limit: whenever limit_text_length(text) has at most max_chars           *)
(* characters, applying limit_text_length to it gives it again.            *)
(***************************************************************************)
C15_IdempotentWithinBudget ==
    (tpc = "relimited" /\ Len(once) <= max_chars) => twice = once

\* a text over the limit was cut to within the limit and stays as it is
C15_Witness ==
    /\ tpc = "relimited"
    /\ Len(raw) > max_chars
    /\ once # raw
    /\ Len(once) <= max_chars
    /\ twice = once


\* process_pdf has called get_pdf_metadata and holds what it returned
MetadataTaken ==
    /\ entry \in {"run", "process_pdf"}
    /\ pc \in {"MetadataExtracted", "TextExtracted", "Summarized",
               "Persisted", "NoTextFound", "SummarizationFailed",
               "ProcessFailed"}

(***************************************************************************)
(* C16 - get_pdf_metadata never raises: its caller always receives a       *)
(* structure, and for a missing or corrupt file that structure holds only  *)
(* the filename and a non-empty error field; for a file PyPDF2 can read it *)
(* holds the full metadata and no error.                                   *)
(***************************************************************************)
C16_MetadataNeverRaises ==
    MetadataTaken =>
        /\ "filename" \in result.metadata.keys
        /\ (~doc.exists \/ doc.corrupt)
               => /\ result.metadata.keys = {"filename", "error"}
                  /\ result.metadata.error # ""
        /\ (doc.exists /\ ~doc.corrupt)
               => result.metadata.keys = FullMetadataKeys

\* get_pdf_metadata has answered for a corrupt file
C16_Witness ==
    /\ MetadataTaken
    /\ doc = CorruptDoc
    /\ result.metadata.keys = {"filename", "error"}
    /\ result.metadata.error = "EOF marker not found"


\* the union of the qualifying text elements and the qualifying anchors
Candidates == {parsed.targets[k] : k \in 1..Len(parsed.targets)}

(***************************************************************************)
(* C17 - on a listing page the element parse_page selects is the first in  *)
(* document order among the qualifying text elements and the qualifying    *)
(* Kuwait anchors together, and when that element is an anchor exactly one *)
(* parse_item request is issued, to its href resolved against the page URL.*)
(***************************************************************************)
C17_FirstInDocumentOrder ==
    (ppc = "parsed" /\ Candidates # {}) =>
        LET first == Min(Candidates)
        IN  /\ parsed.first_element = first
            /\ dom[first].tag = "a" =>
                   parsed.requests =
                       <<Request(urljoin(StartUrl, Val(dom[first].href)),
                                 "parse_item")>>

\* the anchors around element c, by the claim's four classes
PriorityClass(d, c, j) ==
    IF j \in descendant_anchors(d, c) THEN 1
    ELSE IF j > c /\ (j \in following_sibling_anchors(d, c)
                      \/ d[j].parent = d[c].parent) THEN 2
    ELSE IF j < c /\ (j \in preceding_sibling_anchors(d, c)
                      \/ d[j].parent = d[c].parent) THEN 3
    ELSE 4

AnchorsAround(d, c) ==
    descendant_anchors(d, c) \cup following_sibling_anchors(d, c)
        \cup preceding_sibling_anchors(d, c) \cup parent_anchors(d, c)
        \cup grandparent_anchors(d, c)

(***************************************************************************)
(* C20 - when the selected element is not an anchor, the href used is that *)
(* of an anchor of the best class present: its descendants first, else its *)
(* following siblings, else its preceding siblings, else the anchors of    *)
(* its close ancestors; an anchor of a later class is used only when no    *)
(* anchor of an earlier class exists.                                      *)
(***************************************************************************)
C20_FixedPriority ==
    (/\ ppc = "parsed"
     /\ parsed.first_element # 0
     /\ dom[parsed.first_element].tag # "a"
     /\ ~IsNone(parsed.link)) =>
        LET c == parsed.first_element
            used == CHOOSE j \in AnchorsAround(dom, c) :
                        dom[j].href = parsed.link
        IN  \A k \in AnchorsAround(dom, c) :
                PriorityClass(dom, c, used) <= PriorityClass(dom, c, k)


\* the files save_pdf has written completely
CompleteFiles == SelectSeq(files, LAMBDA f : f.complete)

\* nothing is written and nothing is scheduled in this step
NothingNew ==
    /\ files' = files
    /\ pending' \subseteq pending
    /\ seen' = seen
    /\ downloaded' = downloaded

(***************************************************************************)
(* C11 - at most one PDF file is written per spider run, in whatever order *)
(* the responses are answered: once a download has completed (downloaded   *)
(* is set), no callback writes a file or schedules a request.              *)
(***************************************************************************)
C11_SingleDownload ==
    /\ [](Len(CompleteFiles) <= 1)
    /\ [](downloaded <=> Len(CompleteFiles) = 1)
    /\ [][downloaded => NothingNew]_vars

\* a second PDF response and a report page were answered after the download
\* and found the flag
C11_Witness ==
    /\ Len(CompleteFiles) = 1
    /\ \E h \in handled : h.callback = "save_pdf" /\ h.down
    /\ \E h \in handled :
           h.callback \in {"parse_item", "check_page_for_kuwait"} /\ h.down

\* what the site holds, whatever the spider makes of it
ListingHasCandidate(path) ==
    IF path = StartPath THEN site.start \notin {"fallback2", "fallback6"}
    ELSE site.start = "anchor_next"

ReportMatches(path) ==
    \E i \in 1..6 : path = ReportPath(i) /\ ReportKind(site, i).matches

ListingCallbacks == {"parse_start_url", "parse_page"}

\* the fallback requests of a listing page and what comes of them
FallbackFetches(h) ==
    /\ Cardinality(h.yielded) <= 5
    /\ \A r \in h.yielded : r.callback = "check_page_for_kuwait"

FallbackPageProcessed ==
    \A h \in handled :
        h.callback = "check_page_for_kuwait"
            => (h.branch # "no_match" <=> ReportMatches(h.url.path))

\* a PDF request in the chain of a listing page without a candidate comes
\* from a fallback page that matched
FallbackPdfOnlyOnMatch ==
    \A e \in pending \cup handled :
        (e.callback = "save_pdf" /\ ~ListingHasCandidate(e.root))
            => \E h \in handled :
                   /\ h.callback = "check_page_for_kuwait"
                   /\ h.root = e.root
                   /\ ReportMatches(h.url.path)

(***************************************************************************)
(* C18 - as claimed: the fallback path is taken exactly when the listing   *)
(* page has no qualifying candidate; it fetches at most 5 research links;  *)
(* a fetched page is processed as the report page exactly when its body    *)
(* names Kuwait with "- en" or "- eng"; and when no fallback page matches  *)
(* no PDF request is issued.                                               *)
(***************************************************************************)
C18_AsClaimed ==
    /\ \A h \in handled :
           h.callback \in ListingCallbacks
               => /\ h.branch = "fallback" <=> ~ListingHasCandidate(h.url.path)
                  /\ h.branch = "fallback" => FallbackFetches(h)
    /\ FallbackPageProcessed
    /\ FallbackPdfOnlyOnMatch

(***************************************************************************)
(* C18 - for a listing page answered before any download has completed,    *)
(* the fallback path is taken exactly when the page has no qualifying      *)
(* candidate (a listing page answered after a download is not processed);  *)
(* the fallback fetches at most 5 research links; a fetched page is handed *)
(* to parse_item exactly when its body names Kuwait with "- en" or         *)
(* "- eng"; and when no fallback page matches no PDF request is issued.    *)
(***************************************************************************)
C18_FallbackPath ==
    /\ \A h \in handled :
           h.callback \in ListingCallbacks
               => /\ ~h.down => (h.branch = "fallback"
                                    <=> ~ListingHasCandidate(h.url.path))
                  /\ h.down => h.branch = "stopped" /\ h.yielded = {}
                  /\ h.branch = "fallback" => FallbackFetches(h)
    /\ FallbackPageProcessed
    /\ FallbackPdfOnlyOnMatch

\* a page with six research links: five are fetched, one of them matches
\* and its PDF is requested
C18_Witness ==
    /\ \E h \in handled :
           /\ h.branch = "fallback"
           /\ Cardinality(h.yielded) = 5
    /\ \E h \in handled :
           /\ h.callback = "check_page_for_kuwait"
           /\ h.branch = "pdf_link"
    /\ \E h \in handled :
           /\ h.callback = "check_page_for_kuwait"
           /\ h.branch = "no_match"

(***************************************************************************)
(* C19 - along the chain of save_pdf responses for one report, the step    *)
(* from a response that is not a PDF to an alternate ".pdf" link is taken  *)
(* at most once, so the chain ends after at most two fetches.              *)
(***************************************************************************)
C19_OneRedirect ==
    \A e \in pending \cup handled :
        e.callback = "save_pdf" => e.hops <= 1


\* the report page of a URL, as the site holds it
ReportOf(path) ==
    ReportKind(site, CHOOSE i \in 1..6 : path = ReportPath(i))

\* the events of parse_item that took a PDF link
TookPdfLink == {h \in handled : h.branch = "pdf_link"}

(***************************************************************************)
(* C21 - on a report page with at least one candidate link, parse_item     *)
(* takes a candidate whose href contains "kuwait" if there is one, and     *)
(* otherwise the first candidate in the order the anchors were collected   *)
(* from the page; the same page always yields the same link.               *)
(***************************************************************************)
C21_PreferredLink ==
    \A h \in TookPdfLink :
        LET links == ReportOf(h.url.path).links
        IN  \A r \in h.yielded :
                IF \E k \in 1..Len(links) : links[k] = 2
                THEN r.url.path = DownloadPath(2)
                ELSE r.url.path = DownloadPath(links[1])


\* what the site answers at a download URL
DownloadKindOf(path) ==
    site.downloads[CHOOSE j \in 1..3 : path = DownloadPath(j)]

\* the answer has a PDF content type or starts with the bytes %PDF
DownloadIsPdf(path) == DownloadKindOf(path) \in {"pdf", "magic"}

\* the save_pdf events this step adds
SavePdfNow == {h \in handled' \ handled : h.callback = "save_pdf"}

(***************************************************************************)
(* C22 - save_pdf writes a file and sets the downloaded flag only when the *)
(* content type of the response indicates a PDF or its body starts with    *)
(* "%PDF"; for any other response no file is written and the flag stays as *)
(* it was.                                                                 *)
(***************************************************************************)
C22_WritesOnlyPdf ==
    /\ [](\A k \in 1..Len(files) : DownloadIsPdf(files[k].source))
    /\ [](downloaded => \E k \in 1..Len(files) : files[k].complete)
    /\ [](\A h \in handled :
              (h.callback = "save_pdf" /\ ~DownloadIsPdf(h.url.path))
                  => h.branch # "pdf" /\ h.item # "success")
    /\ [][\A h \in SavePdfNow :
              ~DownloadIsPdf(h.url.path)
                  => files' = files /\ downloaded' = downloaded]_vars

\* a response that is not a PDF was answered before any download and then
\* a body starting with %PDF, sent as an octet stream, was written
C22_Witness ==
    /\ \E h \in handled :
           /\ h.callback = "save_pdf"
           /\ ~h.down
           /\ ~DownloadIsPdf(h.url.path)
           /\ h.branch \in {"redirect", "not_pdf"}
    /\ \E k \in 1..Len(files) :
           /\ files[k].complete
           /\ DownloadKindOf(files[k].source) = "magic"
    /\ downloaded


\* the save_pdf events whose write failed
FailedWrites ==
    {h \in handled :
        h.callback = "save_pdf" /\ h.branch = "pdf" /\ h.item = "failure"}

(***************************************************************************)
(* C26 - when writing the PDF body fails inside save_pdf, the downloaded   *)
(* flag is left false and a success=false item is emitted, so that a later *)
(* PDF response of the run can still complete the download; the flag is    *)
(* true only after a write has fully succeeded.                            *)
(***************************************************************************)
C26_FailedWriteKeepsFlag ==
    /\ [](downloaded <=> \E k \in 1..Len(files) : files[k].complete)
    /\ [](\A h \in FailedWrites : ~h.down)
    /\ [][\A h \in SavePdfNow :
              (h.branch = "pdf" /\ files' = files) => ~downloaded']_vars
    /\ [][\A h \in SavePdfNow :
              (h.branch = "pdf" /\ files' # files
                   /\ ~files'[Len(files')].complete)
                  => ~downloaded' /\ h.item = "failure"]_vars

\* a write failed part way and a later PDF response completed the download
C26_Witness ==
    /\ FailedWrites # {}
    /\ Len(files) = 2
    /\ ~files[1].complete
    /\ files[2].complete
    /\ downloaded


\* process_pdf has taken the metadata of a file PyPDF2 cannot open
DegradedMetadata ==
    /\ entry \in {"run", "process_pdf"}
    /\ pc \notin {"Idle", "Start", "RunFailed"}
    /\ ~doc.exists \/ doc.corrupt

(***************************************************************************)
(* C25 - when get_pdf_metadata returns the degraded structure (filename    *)
(* and error only), process_pdf ends with success=false and an error, the  *)
(* degraded metadata stays in the returned record, neither text extraction *)
(* nor summarization is attempted, and nothing is persisted.               *)
(***************************************************************************)
C25_DegradedMetadataEnds ==
    /\ [](DegradedMetadata =>
              /\ pc = "ProcessFailed"
              /\ ~result.success
              /\ ~IsNone(result.error)
              /\ Val(result.error) # ""
              /\ result.metadata.keys = {"filename", "error"}
              /\ result.metadata.error # ""
              /\ IsNone(text)
              /\ cpc = "idle"
              /\ apiLog = <<>>
              /\ ~IsNone(returned) => returned = Some(result))
    /\ [][(DegradedMetadata /\ ops' = ops) => storage' = storage]_vars

\* run has returned the record of a corrupt file
C25_Witness ==
    /\ RunDone
    /\ doc = CorruptDoc
    /\ Val(returned).metadata.keys = {"filename", "error"}
    /\ Val(returned).metadata.error = "EOF marker not found"
    /\ ~Val(returned).success
    /\ storage = <<>>


\* process_pdf has the text of its document, and it is none or empty
ExtractedNothing ==
    /\ entry \in {"run", "process_pdf"}
    /\ pc \notin {"Idle", "Start", "RunFailed", "MetadataExtracted"}
    /\ IsNone(text) \/ Val(text) = <<>>

\* this step calls summarize_text
SummarizerInvoked == cpc = "idle" /\ cpc' # "idle"

(***************************************************************************)
(* C23 - process_pdf calls the summarizer at most once per document, and   *)
(* only after extract_first_page_text returned a non-empty string: when    *)
(* the extraction yields None or an empty string (a text that is empty     *)
(* after cleaning included), no remote completion call is made in the run. *)
(***************************************************************************)
C23_SummarizeOnlyWithText ==
    /\ [](ExtractedNothing => cpc = "idle" /\ apiLog = <<>>)
    /\ [][(SummarizerInvoked /\ entry \in {"run", "process_pdf"})
              => /\ pc = "TextExtracted"
                 /\ text = extract_first_page_text(doc)
                 /\ ~IsNone(text)
                 /\ Val(text) # <<>>]_vars
    /\ [][(cpc # "idle" /\ ops' = ops) => cpc' # "idle"]_vars

\* the first page held a page number alone: the text is empty after
\* cleaning and the run ends without a call
C23_Witness ==
    /\ RunDone
    /\ pc = "NoTextFound"
    /\ text = Some(<<>>)
    /\ cpc = "idle"
    /\ apiLog = <<>>


\* the sleeps the current summarize_text call made while looping on d
SleepsOf(d) == SelectSeq(sleeps, LAMBDA c : c.deployment = d)

\* the remote call of attempt a on deployment d
CallAt(d, a) ==
    {i \in 1..Len(apiLog) :
        apiLog[i].deployment = d /\ apiLog[i].attempt = a}

\* attempt a on deployment d has been made or is the one to make now
AttemptReached(d, a) ==
    \/ CallAt(d, a) # {}
    \/ cpc = "api_call" /\ deployment = d /\ attempt = a

(***************************************************************************)
(* C24 - the retry loop sleeps neither after its final attempt nor before  *)
(* its first: for one deployment a sleep happens only between a failed     *)
(* attempt and the next attempt, so at most MAX_RETRIES - 1 sleeps occur;  *)
(* a response without choices ends the loop at once with None, without a   *)
(* sleep or a retry.                                                       *)
(***************************************************************************)
C24_SleepsOnlyBetweenAttempts ==
    /\ \A d \in {"primary", "backup"} :
           Len(SleepsOf(d)) <= MAX_RETRIES - 1
    /\ \A i \in 1..Len(sleeps) :
           LET z == sleeps[i]
           IN  /\ z.attempt < MAX_RETRIES - 1
               /\ \E c \in CallAt(z.deployment, z.attempt) :
                      apiLog[c].kind \in FailureKinds
               /\ AttemptReached(z.deployment, z.attempt + 1)
               /\ \A k \in 1..Len(sleeps) :
                      (sleeps[k].deployment = z.deployment
                           /\ sleeps[k].attempt = z.attempt) => k = i
    /\ \A i \in 1..Len(apiLog) :
           apiLog[i].kind = "no_choices" =>
               /\ \A k \in 1..Len(sleeps) :
                      ~(/\ sleeps[k].deployment = apiLog[i].deployment
                        /\ sleeps[k].attempt = apiLog[i].attempt)
               /\ \A k \in (i + 1)..Len(apiLog) :
                      apiLog[k].deployment # apiLog[i].deployment
               /\ (i = Len(apiLog) /\ cpc = "call_returned")
                      => IsNone(response)

\* every attempt on the primary deployment failed, the last one on a
\* timeout: a sleep after each attempt but the last, and None is returned
C24_Witness ==
    /\ Len(CallsTo("primary")) = MAX_RETRIES
    /\ \A i \in 1..Len(apiLog) : apiLog[i].kind \in FailureKinds
    /\ apiLog[Len(apiLog)].kind = "timeout"
    /\ Len(SleepsOf("primary")) = MAX_RETRIES - 1
    /\ cpc = "call_returned"
    /\ IsNone(response)

=============================================================================
